---------------------------- MODULE Spec2Model ----------------------------
(***************************************************************************)
(* Smart Scraper: the click handler of App (handleElementClick,            *)
(* handleRemoveField, updateData), the list identifier and extractor of    *)
(* services/scraperEngine.ts and the AI-clean flow of SidePanel            *)
(* (handleAIClean / cleanDataWithAI), run over a fixed document tree.      *)
(*                                                                         *)
(* Strings that the code takes apart (tag names, class tokens, selectors,  *)
(* field names) are sequences of one-character strings, so that            *)
(* startsWith, replace, toLowerCase and length are computed as the code    *)
(* computes them.  Cell values (rendered text, src, href, AI output) are    *)
(* sequences of words; the empty string is the empty sequence.             *)
(***************************************************************************)
EXTENDS Integers, Sequences, FiniteSets, TLC

(***************************************************************************)
(* Bounds of the model.                                                    *)
(***************************************************************************)
MaxFields == 2     \* fields in the field list, when no request is ever made
MaxCleanFields == 1 \* fields in the field list, in runs with requests
MaxCleans == 1     \* TextTransform requests issued in a run
MaxTime == 1       \* milliseconds that pass in a run
MaxSurplus == 1    \* how much longer than the column an answer can be
MaxFlightCleans == 2 \* requests issued in a run that follows one by another

(***************************************************************************)
(* Program constants.                                                      *)
(***************************************************************************)
MaxDepth == 8

(***************************************************************************)
(* Character helpers.                                                      *)
(***************************************************************************)
UpperChars == <<"A","B","C","D","E","F","G","H","I","J","K","L","M",
                "N","O","P","Q","R","S","T","U","V","W","X","Y","Z">>
LowerChars == <<"a","b","c","d","e","f","g","h","i","j","k","l","m",
                "n","o","p","q","r","s","t","u","v","w","x","y","z">>
Digits == {"0","1","2","3","4","5","6","7","8","9"}

IndexOf(c, s) == IF \E i \in 1..Len(s) : s[i] = c
                 THEN CHOOSE i \in 1..Len(s) : s[i] = c
                 ELSE 0

toLowerChar(c) == IF IndexOf(c, UpperChars) > 0
                  THEN LowerChars[IndexOf(c, UpperChars)] ELSE c
toUpperChar(c) == IF IndexOf(c, LowerChars) > 0
                  THEN UpperChars[IndexOf(c, LowerChars)] ELSE c

toLowerCase(s) == [i \in 1..Len(s) |-> toLowerChar(s[i])]

startsWith(s, p) == Len(s) >= Len(p) /\ SubSeq(s, 1, Len(p)) = p

\* s.replace(/[-_]/g, ' ')
replaceSeparators(s) ==
  [i \in 1..Len(s) |-> IF s[i] \in {"-", "_"} THEN " " ELSE s[i]]

\* s.toLowerCase().replace(/[^a-z0-9]/g, '_')
sanitize(s) ==
  [i \in 1..Len(s) |->
     LET c == toLowerChar(s[i])
     IN IF IndexOf(c, LowerChars) > 0 \/ c \in Digits THEN c ELSE "_"]

\* s.charAt(0).toUpperCase() + s.slice(1)
capitalize(s) ==
  IF Len(s) = 0 THEN s ELSE <<toUpperChar(s[1])>> \o SubSeq(s, 2, Len(s))

(***************************************************************************)
(* The document tree.  Nodes are numbered in document order; 0 is null.    *)
(*                                                                         *)
(*  1 HTML                                                                 *)
(*  2  BODY                                                                *)
(*  3   MAIN                     the web-content area, receives the clicks *)
(*  4    H1  .site-title                                                   *)
(*  5    SECTION .main                                                     *)
(*  6     DIV .grid                                                        *)
(*  7      DIV .card .hot                                                  *)
(*  8       IMG  .pic                                                      *)
(*  9       SPAN .active .property-title                                   *)
(* 10      DIV .card                                                       *)
(* 11       A    .pic                                                      *)
(* 12       SPAN .property-title                                           *)
(* 13      DIV .card                                                       *)
(* 14     DIV .foot                                                        *)
(* 15      B > 16 B > 17 B > 18 B > 19 B > 20 B > 21 B > 22 B              *)
(* 23    NAV                                                               *)
(* 24     P  .item.new           one class token, with a dot in it         *)
(* 25     P  .item.new .item .new                                          *)
(* 26    ASIDE                                                             *)
(* 27     P  .item.new                                                     *)
(* 28     P  .item.new                                                     *)
(***************************************************************************)
NULL == 0

Parent ==
  <<0, 1, 2, 3, 3, 5, 6, 7, 7, 6, 10, 10, 6, 5, 14, 15, 16, 17, 18, 19, 20, 21,
    3, 23, 23, 3, 26, 26>>

NumNodes == Len(Parent)
Nodes == 1..NumNodes

tDIV == <<"D","I","V">>
tSPAN == <<"S","P","A","N">>
tB == <<"B">>
tP == <<"P">>

TagName ==
  << <<"H","T","M","L">>, <<"B","O","D","Y">>, <<"M","A","I","N">>,
     <<"H","1">>, <<"S","E","C","T","I","O","N">>,
     tDIV,
     tDIV, <<"I","M","G">>, tSPAN,
     tDIV, <<"A">>, tSPAN,
     tDIV,
     tDIV, tB, tB, tB, tB, tB, tB, tB, tB,
     <<"N","A","V">>, tP, tP,
     <<"A","S","I","D","E">>, tP, tP >>

cCard == <<"c","a","r","d">>
cHot == <<"h","o","t">>
cPic == <<"p","i","c">>
cMain == <<"m","a","i","n">>
cGrid == <<"g","r","i","d">>
cFoot == <<"f","o","o","t">>
cActive == <<"a","c","t","i","v","e">>
cSelected == <<"s","e","l","e","c","t","e","d">>
cSiteTitle == <<"s","i","t","e","-","t","i","t","l","e">>
cPropertyTitle == <<"p","r","o","p","e","r","t","y","-","t","i","t","l","e">>
cItem == <<"i","t","e","m">>
cNew == <<"n","e","w">>
cItemDotNew == cItem \o <<".">> \o cNew

\* classList of each node, in attribute order
ClassList ==
  << <<>>, <<>>, <<>>, <<cSiteTitle>>, <<cMain>>,
     <<cGrid>>,
     <<cCard, cHot>>, <<cPic>>, <<cActive, cPropertyTitle>>,
     <<cCard>>, <<cPic>>, <<cPropertyTitle>>,
     <<cCard>>,
     <<cFoot>>, <<>>, <<>>, <<>>, <<>>, <<>>, <<>>, <<>>, <<>>,
     <<>>, <<cItemDotNew>>, <<cItemDotNew, cItem, cNew>>,
     <<>>, <<cItemDotNew>>, <<cItemDotNew>> >>

\* The text a node itself carries, as words (its descendants add theirs).
OwnText ==
  << <<>>, <<>>, <<>>, <<"Dream", "Homes">>, <<>>,
     <<>>,
     <<>>, <<>>, <<"Villa">>,
     <<>>, <<"More">>, <<"Villa">>,
     <<>>,
     <<>>, <<>>, <<>>, <<>>, <<>>, <<>>, <<>>, <<>>, <<"deep">>,
     <<>>, <<"one">>, <<"two">>,
     <<>>, <<"three">>, <<"four">> >>

\* HTMLImageElement.src / HTMLAnchorElement.href, resolved
Src(n) == IF TagName[n] = <<"I","M","G">> THEN <<"u1.png">> ELSE <<>>
Href(n) == IF TagName[n] = <<"A">> THEN <<"h2.html">> ELSE <<>>

\* The nodes a click can land on: the web-content area and what is in it.
ClickTargets == 3..NumNodes

(***************************************************************************)
(* Tree Adapter: what the code reads from the DOM.                         *)
(***************************************************************************)
\* parent.children, in document order
RECURSIVE ChildrenFrom(_, _)
ChildrenFrom(p, n) ==
  IF n > NumNodes THEN <<>>
  ELSE (IF Parent[n] = p THEN <<n>> ELSE <<>>) \o ChildrenFrom(p, n + 1)

\* the tree is fixed: each table below is computed once
ChildrenTable == [p \in Nodes |-> ChildrenFrom(p, 1)]
Children(p) == ChildrenTable[p]

\* a.contains(b): b is a or a descendant of a
RECURSIVE IsInclusiveAncestor(_, _)
IsInclusiveAncestor(a, b) ==
  IF b = NULL THEN FALSE
  ELSE IF a = b THEN TRUE
  ELSE IsInclusiveAncestor(a, Parent[b])

ContainsTable == [a \in Nodes |-> {b \in Nodes : IsInclusiveAncestor(a, b)}]
Contains(a, b) == b \in ContainsTable[a]

\* the strict descendants of n, in document order
RECURSIVE DescendantsFrom(_, _)
DescendantsFrom(n, m) ==
  IF m > NumNodes THEN <<>>
  ELSE (IF m # n /\ Contains(n, m) THEN <<m>> ELSE <<>>) \o DescendantsFrom(n, m + 1)

DescendantsTable == [n \in Nodes |-> DescendantsFrom(n, 1)]
Descendants(n) == DescendantsTable[n]

\* el.classList.contains(cls)
HasClass(n, cls) == \E i \in 1..Len(ClassList[n]) : ClassList[n][i] = cls

\* a selector string cut at its dots, as the selector parser cuts it: what
\* precedes the first dot is the type selector (empty for none), and every
\* dot starts one class selector
RECURSIVE SplitAtDots(_)
SplitAtDots(sel) ==
  LET d == IndexOf(".", sel)
  IN IF d = 0 THEN <<sel>>
     ELSE <<SubSeq(sel, 1, d - 1)>> \o SplitAtDots(SubSeq(sel, d + 1, Len(sel)))

\* el.matches(sel) for a compound selector: tag, .class, tag.class,
\* tag.class.class; the code writes class tokens into selectors unescaped
Matches(n, sel) ==
  LET parts == SplitAtDots(sel)
  IN /\ parts[1] = <<>> \/ toLowerCase(TagName[n]) = parts[1]
     /\ \A i \in 2..Len(parts) : HasClass(n, parts[i])

\* The selectors the code can build over this tree: a lower-cased tag, a
\* class, or a tag with a class.  The tree is fixed, so what each of them
\* matches is computed once; any other selector is matched afresh.
TagSelectors == { toLowerCase(TagName[n]) : n \in Nodes }
ClassSelectors ==
  UNION { { <<".">> \o ClassList[n][i] : i \in 1..Len(ClassList[n]) } : n \in Nodes }
KnownSelectors ==
  TagSelectors \cup ClassSelectors \cup { t \o c : t \in TagSelectors, c \in ClassSelectors }

\* el.closest(sel): the nearest of el and its ancestors that matches
RECURSIVE ClosestFrom(_, _)
ClosestFrom(n, sel) ==
  IF n = NULL THEN NULL
  ELSE IF Matches(n, sel) THEN n
  ELSE ClosestFrom(Parent[n], sel)

ClosestTable == [sel \in KnownSelectors |-> [n \in Nodes |-> ClosestFrom(n, sel)]]
Closest(n, sel) ==
  IF sel \in KnownSelectors THEN ClosestTable[sel][n] ELSE ClosestFrom(n, sel)

\* parent.querySelectorAll(`:scope > ${sel}`)
ScopedChildrenOf(p, sel) ==
  LET Test(c) == Matches(c, sel) IN SelectSeq(Children(p), Test)

ScopedTable == [sel \in KnownSelectors |-> [p \in Nodes |-> ScopedChildrenOf(p, sel)]]
ScopedChildren(p, sel) ==
  IF sel \in KnownSelectors THEN ScopedTable[sel][p] ELSE ScopedChildrenOf(p, sel)

\* root.querySelectorAll(sel)
QuerySelectorAll(root, sel) ==
  LET Test(c) == Matches(c, sel) IN SelectSeq(Descendants(root), Test)

\* item.querySelector(sel): the first match or null
QuerySelectorOf(root, sel) ==
  LET all == QuerySelectorAll(root, sel)
  IN IF Len(all) = 0 THEN NULL ELSE all[1]

QueryTable == [sel \in KnownSelectors |-> [n \in Nodes |-> QuerySelectorOf(n, sel)]]
QuerySelector(root, sel) ==
  IF sel \in KnownSelectors THEN QueryTable[sel][root] ELSE QuerySelectorOf(root, sel)

\* innerText / textContent of the subtree, whitespace collapsed and trimmed
RECURSIVE TextFrom(_, _)
TextFrom(n, m) ==
  IF m > NumNodes THEN <<>>
  ELSE (IF Contains(n, m) THEN OwnText[m] ELSE <<>>) \o TextFrom(n, m + 1)

TextTable == [n \in Nodes |-> TextFrom(n, 1)]
getTextFromElement(el) == IF el = NULL THEN <<>> ELSE TextTable[el]

(***************************************************************************)
(* services/scraperEngine.ts                                               *)
(***************************************************************************)
\* "no ListContext": identifyRepeatedList's null, and App's initial state
NoContext == [container |-> NULL, itemSelector |-> <<>>, foundItem |-> NULL]

\* (cls.includes('-') || cls.includes('_') ? 10 : 0) + cls.length
Score(cls) ==
  (IF \E i \in 1..Len(cls) : cls[i] \in {"-", "_"} THEN 10 ELSE 0) + Len(cls)

\* commonClasses.sort((a, b) => bScore - aScore): stable, highest score first
RECURSIVE SortByScore(_)
SortByScore(cs) ==
  IF Len(cs) = 0 THEN <<>>
  ELSE LET top == CHOOSE i \in 1..Len(cs) :
                     /\ \A j \in 1..Len(cs) : Score(cs[j]) <= Score(cs[i])
                     /\ \A j \in 1..(i - 1) : Score(cs[j]) < Score(cs[i])
           rest == [k \in 1..(Len(cs) - 1) |-> IF k < top THEN cs[k] ELSE cs[k + 1]]
       IN <<cs[top]>> \o SortByScore(rest)

\* the siblings of current with its tag
SameTagSiblings(current) ==
  LET Test(c) == c # current /\ TagName[c] = TagName[current]
  IN SelectSeq(Children(Parent[current]), Test)

\* the classes of current that every same-tag sibling carries
CommonClasses(current, siblings) ==
  LET Test(cls) == \A k \in 1..Len(siblings) : HasClass(siblings[k], cls)
  IN SelectSeq(ClassList[current], Test)

\* the item selector built at one level of the walk
ItemSelectorAt(current, siblings) ==
  LET tagSel == toLowerCase(TagName[current])
      common == CommonClasses(current, siblings)
  IN IF Len(ClassList[current]) > 0 /\ Len(common) > 0
     THEN tagSel \o <<".">> \o SortByScore(common)[1]
     ELSE tagSel

\* the loop of identifyRepeatedList, at iteration i with cursor current
RECURSIVE identifyFrom(_, _)
identifyFrom(current, i) ==
  IF i >= MaxDepth THEN NoContext
  ELSE IF current = NULL
          \/ TagName[current] \in {<<"B","O","D","Y">>, <<"H","T","M","L">>}
       THEN NoContext
  ELSE IF Parent[current] = NULL THEN NoContext
  ELSE LET parent == Parent[current]
           siblings == SameTagSiblings(current)
           selector == ItemSelectorAt(current, siblings)
       IN IF Len(siblings) > 0 /\ Len(ScopedChildren(parent, selector)) >= 1
          THEN [container |-> parent, itemSelector |-> selector,
                foundItem |-> current]
          ELSE identifyFrom(parent, i + 1)

IdentifyTable == [target \in Nodes |-> identifyFrom(target, 0)]
identifyRepeatedList(target) == IdentifyTable[target]

\* an id that does not depend on the position
RowId_Fixed(index) == <<"row-", 0>>

\* `row-${index}`
RowId(index) == <<"row-", index>>

\* the value extract writes for one field of one item
CellValue(item, field) ==
  LET el == IF field.relativeSelector = <<"_","R","O","O","T","_">>
            THEN item
            ELSE QuerySelector(item, field.relativeSelector)
  IN IF el # NULL
     THEN IF field.type = "IMAGE" /\ TagName[el] = <<"I","M","G">> THEN Src(el)
          ELSE IF field.type = "LINK" /\ TagName[el] = <<"A">> THEN Href(el)
          ELSE getTextFromElement(el)
     ELSE <<>>

\* the row object after fields.forEach: a later field with the same id
\* overwrites the key an earlier one wrote
RowCells(item, fields) ==
  [k \in {fields[j].id : j \in 1..Len(fields)} |->
     LET last == CHOOSE j \in 1..Len(fields) :
                    /\ fields[j].id = k
                    /\ \A m \in (j + 1)..Len(fields) : fields[m].id # k
     IN CellValue(item, fields[last])]

\* extract with the items dropped in which some field matched nothing
extractDataFromList_DropUnmatched(rootContainer, itemSelector, fields) ==
  LET scoped == ScopedChildren(rootContainer, itemSelector)
      all == IF Len(scoped) = 0
             THEN QuerySelectorAll(rootContainer, itemSelector)
             ELSE scoped
      Complete(item) ==
        \A j \in 1..Len(fields) :
          \/ fields[j].relativeSelector = <<"_","R","O","O","T","_">>
          \/ QuerySelector(item, fields[j].relativeSelector) # NULL
      items == SelectSeq(all, Complete)
  IN [index \in 1..Len(items) |->
        [id |-> RowId(index - 1), cells |-> RowCells(items[index], fields)]]

extractDataFromList(rootContainer, itemSelector, fields) ==
  LET scoped == ScopedChildren(rootContainer, itemSelector)
      items == IF Len(scoped) = 0
               THEN QuerySelectorAll(rootContainer, itemSelector)
               ELSE scoped
  IN [index \in 1..Len(items) |->
        [id |-> RowId(index - 1), cells |-> RowCells(items[index], fields)]]

(***************************************************************************)
(* App: the state of the React components.                                 *)
(***************************************************************************)
VARIABLES
  isSelecting,   \* App: selection mode
  fields,        \* App: the field list
  data,          \* App: the row set
  listContext,   \* App: the ListContext, NoContext for null
  clock,         \* the value Date.now() returns
  isCleaning,    \* SidePanel: a TextTransform request is outstanding
  request,       \* what the outstanding handleAIClean call closed over
  last,          \* what the last handler run did (gates consulted, notices)
  cleans,        \* TextTransform requests issued so far
  outstanding    \* cleanDataWithAI promises not yet settled

vars == <<isSelecting, fields, data, listContext, clock, isCleaning, request,
          last, cleans, outstanding>>

ROOT == <<"_","R","O","O","T","_">>
PropertyPrefix == <<"p","r","o","p","e","r","t","y","-">>
StateClasses ==
  { <<"n","g","-","b","i","n","d","i","n","g">>, <<"v","-","h","t","m","l">>,
    cActive, cSelected, <<"h","o","v","e","r">>, <<"f","o","c","u","s">> }

NoRequest == [fieldId |-> <<>>, rows |-> <<>>]

Idle == [op |-> "none", outcome |-> "none", inside |-> FALSE,
         identified |-> FALSE, switchGate |-> "none", dupGate |-> "none",
         alert |-> FALSE]

\* CASE A of handleElementClick: the item of the current list that was clicked
RECURSIVE WalkUpFrom(_, _)
WalkUpFrom(parent, container) ==
  IF Parent[parent] # NULL /\ Parent[parent] # container
  THEN WalkUpFrom(Parent[parent], container)
  ELSE IF Parent[parent] = container THEN parent ELSE NULL

WalkUpTable == [container \in Nodes |-> [n \in Nodes |-> WalkUpFrom(n, container)]]
WalkUp(target, container) == WalkUpTable[container][target]

InsideCurrent(ctx, target) ==
  ctx # NoContext /\ Contains(ctx.container, target)

\* closest() alone, without the walk up to the direct child
ItemInCurrentList_NoFallback(ctx, target) ==
  IF InsideCurrent(ctx, target)
  THEN Closest(target, ctx.itemSelector)
  ELSE NULL

\* lines 31-43: closest(itemSelector), then the walk up to the direct child
ItemInCurrentList(ctx, target) ==
  IF InsideCurrent(ctx, target)
  THEN LET viaSelector == Closest(target, ctx.itemSelector)
       IN IF viaSelector # NULL THEN viaSelector
          ELSE WalkUp(target, ctx.container)
  ELSE NULL

\* validClasses.reduce((a, b) => a.length > b.length ? a : b)
RECURSIVE LongestClass(_, _)
LongestClass(acc, rest) ==
  IF Len(rest) = 0 THEN acc
  ELSE LongestClass(IF Len(acc) > Len(rest[1]) THEN acc ELSE rest[1], Tail(rest))

\* section 2 of handleElementClick: selector, name and type of the click
ResolveFieldOf(target, isItem) ==
  LET IsProp(c) == startsWith(c, PropertyPrefix)
      props == SelectSeq(ClassList[target], IsProp)
      IsValid(c) == c \notin StateClasses
      valid == SelectSeq(ClassList[target], IsValid)
      best == LongestClass(valid[1], Tail(valid))
      tagSel == toLowerCase(TagName[target])
      type == IF TagName[target] = <<"A">> THEN "LINK"
              ELSE IF TagName[target] = <<"I","M","G">> THEN "IMAGE"
              ELSE "TEXT"
  IN IF isItem
     THEN [selector |-> ROOT,
           name |-> <<"I","t","e","m"," ","C","o","n","t","e","n","t">>,
           type |-> type]
     ELSE IF Len(props) > 0
     THEN [selector |-> <<".">> \o props[1],
           name |-> SubSeq(props[1], Len(PropertyPrefix) + 1, Len(props[1])),
           type |-> type]
     ELSE IF Len(valid) > 0
     THEN [selector |-> <<".">> \o best, name |-> replaceSeparators(best),
           type |-> type]
     ELSE [selector |-> tagSel, name |-> tagSel, type |-> type]

ResolveTable ==
  [target \in Nodes |-> [isItem \in BOOLEAN |-> ResolveFieldOf(target, isItem)]]
ResolveField(target, itemInList) == ResolveTable[target][target = itemInList]

\* the field names the tree can give, with what the handler derives from
\* each of them computed once
FieldNames ==
  { ResolveTable[target][isItem].name : target \in Nodes, isItem \in BOOLEAN }
NameTable ==
  [fieldName \in FieldNames |->
     [pretty |-> capitalize(fieldName), sanitized |-> sanitize(fieldName)]]

\* fieldName.charAt(0).toUpperCase() + fieldName.slice(1)
prettyNameOf(fieldName) ==
  IF fieldName \in FieldNames THEN NameTable[fieldName].pretty
  ELSE capitalize(fieldName)

\* `${fieldName.toLowerCase().replace(/[^a-z0-9]/g, '_')}_${Date.now()}`
uniqueId(fieldName, now) ==
  << IF fieldName \in FieldNames THEN NameTable[fieldName].sanitized
     ELSE sanitize(fieldName),
     now >>

\* fields.find(f => f.selector === fieldSelector), as an index, 0 for none
ExistingField(fs, fieldSelector) ==
  IF \E i \in 1..Len(fs) : fs[i].selector = fieldSelector
  THEN CHOOSE i \in 1..Len(fs) :
         /\ fs[i].selector = fieldSelector
         /\ \A j \in 1..(i - 1) : fs[j].selector # fieldSelector
  ELSE 0

\* the duplicate looked for after a list switch as well
DuplicateOf_AlwaysLooked(contextChanged, fs, fieldSelector) ==
  ExistingField(fs, fieldSelector)

\* lines 124-125: the existing field is looked for only if (!contextChanged)
DuplicateOf(contextChanged, fs, fieldSelector) ==
  IF contextChanged THEN 0 ELSE ExistingField(fs, fieldSelector)

\* fields.map(f => f.id === existingField.id ? {...f, name, type} : f)
UpdateField(fs, existingId, prettyName, type) ==
  [i \in 1..Len(fs) |->
     IF fs[i].id = existingId
     THEN [fs[i] EXCEPT !.name = prettyName, !.type = type]
     ELSE fs[i]]

\* the new field appended whether or not the list was switched
AddField_NoReset(contextChanged, fs, newField) == Append(fs, newField)

\* contextChanged ? [newField] : [...fields, newField]
AddField(contextChanged, fs, newField) ==
  IF contextChanged THEN <<newField>> ELSE Append(fs, newField)

updateData(ctx, currentFields) ==
  extractDataFromList(
    ctx.container, ctx.itemSelector,
    [i \in 1..Len(currentFields) |->
       [id |-> currentFields[i].id,
        relativeSelector |-> currentFields[i].selector,
        type |-> currentFields[i].type]])

(***************************************************************************)
(* handleElementClick, as a function of the render it closed over          *)
(* (listContext, fields), the click target, the answers the two            *)
(* window.confirm gates would give, and Date.now().  The result names the  *)
(* values setListContext and setFields leave, whether the run reached      *)
(* updateData (which extracts the rows for them), and what it consulted.   *)
(***************************************************************************)
\* CASE B entered only for a click outside the current container
RunsIdentifier_OutsideOnly(ctx, target, itemA) ==
  itemA = NULL /\ ~InsideCurrent(ctx, target)

\* line 46: CASE B is entered whenever CASE A left no item, wherever the
\* click landed
RunsIdentifier(ctx, target, itemA) == itemA = NULL

\* line 53: the identified list is not the current one
IsNewList(ctx, found) ==
  found # NoContext /\ (ctx = NoContext \/ found.container # ctx.container)

\* the gate consulted before the identifier's answer is looked at
GateAsked_BeforeFound(newList, fs) == Len(fs) > 0

\* line 54: the list-switch gate is consulted only over a non-empty field list
GateAsked(newList, fs) == newList /\ Len(fs) > 0

\* confirmReset with the answer of the gate dropped
ConfirmReset_Always(gateAsked, confirmSwitch) == TRUE

\* lines 54-56: confirmReset
ConfirmReset(gateAsked, confirmSwitch) ==
  IF gateAsked THEN confirmSwitch ELSE TRUE

HandleClick(ctx, fs, target, confirmSwitch, confirmDup, now) ==
  LET inside == InsideCurrent(ctx, target)
      itemA == ItemInCurrentList(ctx, target)
      identified == RunsIdentifier(ctx, target, itemA)
      found == identifyRepeatedList(target)
      newList == identified /\ IsNewList(ctx, found)
      gateAsked == GateAsked(newList, fs)
      confirmReset == ConfirmReset(gateAsked, confirmSwitch)
      contextChanged == newList /\ confirmReset
      currentContext == IF contextChanged THEN found ELSE ctx
      itemInList == IF identified THEN found.foundItem ELSE itemA
      switchGate == IF ~gateAsked THEN "none"
                    ELSE IF confirmSwitch THEN "accept" ELSE "reject"
      seen == [Idle EXCEPT !.op = "click", !.inside = inside,
                           !.identified = identified, !.switchGate = switchGate]
      same == [listContext |-> ctx, fields |-> fs, extracts |-> FALSE]
  IN IF identified /\ found = NoContext
     THEN same @@ [last |-> [seen EXCEPT !.outcome = "notFound"]]
     ELSE IF newList /\ ~confirmReset
     THEN same @@ [last |-> [seen EXCEPT !.outcome = "cancelled"]]
     ELSE IF itemInList = NULL \/ currentContext = NoContext
     THEN same @@ [last |-> [seen EXCEPT !.outcome = "noItem"]]
     ELSE
       LET r == ResolveField(target, itemInList)
           pretty == prettyNameOf(r.name)
           existing == DuplicateOf(contextChanged, fs, r.selector)
           dupGate == IF existing = 0 THEN "none"
                      ELSE IF confirmDup THEN "update" ELSE "add"
           newField == [id |-> uniqueId(r.name, now), name |-> pretty,
                        selector |-> r.selector, type |-> r.type]
           updatedFields ==
             IF dupGate = "update"
             THEN UpdateField(fs, fs[existing].id, pretty, r.type)
             ELSE AddField(contextChanged, fs, newField)
       IN [listContext |-> currentContext,
           fields |-> updatedFields,
           extracts |-> TRUE,
           last |-> [seen EXCEPT
                       !.dupGate = dupGate,
                       !.outcome = IF dupGate = "update" THEN "updated"
                                   ELSE IF contextChanged THEN "switched"
                                   ELSE "appended"]]

(***************************************************************************)
(* Actions.                                                                *)
(***************************************************************************)
Init ==
  /\ isSelecting = FALSE
  /\ fields = <<>>
  /\ data = <<>>
  /\ listContext = NoContext
  /\ clock = 0
  /\ isCleaning = FALSE
  /\ request = NoRequest
  /\ last = Idle
  /\ cleans = 0
  /\ outstanding = 0

\* SidePanel's "Select Elements" / "Stop Selection" button
ToggleSelectionMode ==
  /\ isSelecting' = ~isSelecting
  /\ last' = [Idle EXCEPT !.op = "toggle"]
  /\ UNCHANGED <<fields, data, listContext, clock, isCleaning, request,
                 cleans, outstanding>>

\* time passes: Date.now() grows, by whole milliseconds
Tick ==
  /\ clock < MaxTime
  /\ clock' = clock + 1
  /\ UNCHANGED <<isSelecting, fields, data, listContext, isCleaning, request,
                 last, cleans, outstanding>>

\* a click on a node of the web content; a run of the handler shows at most
\* one window.confirm (a confirmed list switch skips the duplicate prompt),
\* and answer is what the user answers to it
\* the click handled whether or not selection mode is on
ClickOn_Ungated(target, answer, limit) ==
  \E h \in {HandleClick(listContext, fields, target, answer, answer, clock)} :
     /\ Len(h.fields) <= limit
     /\ listContext' = h.listContext
     /\ fields' = h.fields
     /\ last' = h.last
     /\ data' = IF h.extracts
                THEN updateData(h.listContext, h.fields) ELSE data
     /\ UNCHANGED <<isSelecting, clock, isCleaning, request, cleans, outstanding>>

ClickOn(target, answer, limit) ==
  IF ~isSelecting
  THEN /\ last' = [Idle EXCEPT !.op = "click", !.outcome = "ignored"]
       /\ UNCHANGED <<isSelecting, fields, data, listContext, clock,
                      isCleaning, request, cleans, outstanding>>
  ELSE \E h \in {HandleClick(listContext, fields, target,
                              answer, answer, clock)} :
          /\ Len(h.fields) <= limit
          /\ listContext' = h.listContext
          /\ fields' = h.fields
          /\ last' = h.last
          /\ data' = IF h.extracts
                     THEN updateData(h.listContext, h.fields) ELSE data
          /\ UNCHANGED <<isSelecting, clock, isCleaning, request, cleans, outstanding>>

Click ==
  \E target \in ClickTargets : \E answer \in BOOLEAN :
    ClickOn(target, answer, MaxFields)

ClickFew ==
  \E target \in ClickTargets : \E answer \in BOOLEAN :
    ClickOn(target, answer, MaxCleanFields)

\* handleRemoveField without its call of updateData
RemoveFieldAt_NoExtract(i) ==
  LET id == fields[i].id
      Keep(f) == f.id # id
  IN /\ fields' = SelectSeq(fields, Keep)
     /\ last' = [Idle EXCEPT !.op = "remove"]
     /\ UNCHANGED <<isSelecting, data, listContext, clock, isCleaning,
                    request, cleans, outstanding>>

\* handleRemoveField(id), from the trash button of a field card
RemoveFieldAt(i) ==
  LET id == fields[i].id
      Keep(f) == f.id # id
      newFields == SelectSeq(fields, Keep)
  IN /\ fields' = newFields
     /\ data' = IF listContext # NoContext
                THEN updateData(listContext, newFields) ELSE data
     /\ last' = [Idle EXCEPT !.op = "remove"]
     /\ UNCHANGED <<isSelecting, listContext, clock, isCleaning, request,
                    cleans, outstanding>>

RemoveField == \E i \in 1..Len(fields) : RemoveFieldAt(i)

(***************************************************************************)
(* SidePanel.handleAIClean and geminiService.cleanDataWithAI.              *)
(***************************************************************************)
\* what reading a key the row does not have yields
Undefined == <<"undefined">>

\* the strings the TextTransform service answers with
CleanWords == { <<>>, <<"x">> }

RECURSIVE SeqsUpTo(_, _)
SeqsUpTo(S, n) ==
  IF n = 0 THEN { <<>> }
  ELSE LET shorter == SeqsUpTo(S, n - 1)
       IN shorter \cup { Append(q, x) : q \in { t \in shorter : Len(t) = n - 1 }, x \in S }

\* what generateContent can come back with, for a column of n values
Responses(n) ==
  { [kind |-> k, array |-> <<>>] : k \in {"apiError", "emptyText", "notArray"} }
  \cup { [kind |-> "array", array |-> a] : a \in SeqsUpTo(CleanWords, n + MaxSurplus) }

\* cleanDataWithAI without its throw: a response that is no array resolves
\* with an empty column
cleanDataWithAI_NoThrow(response) ==
  IF response.kind = "notArray"
  THEN [resolved |-> TRUE, value |-> <<>>]
  ELSE IF response.kind = "array"
  THEN [resolved |-> TRUE, value |-> response.array]
  ELSE [resolved |-> FALSE, value |-> <<>>]

\* cleanDataWithAI: resolves with the parsed array, rejects otherwise
cleanDataWithAI(response) ==
  IF response.kind = "array"
  THEN [resolved |-> TRUE, value |-> response.array]
  ELSE [resolved |-> FALSE, value |-> <<>>]

\* row[fieldId]
CellOf(row, fieldId) ==
  IF fieldId \in DOMAIN row.cells THEN row.cells[fieldId] ELSE Undefined

\* cleanedColumn[index] || row[fieldId]
MergedCell(cleanedColumn, index, row, fieldId) ==
  IF index <= Len(cleanedColumn) /\ cleanedColumn[index] # <<>>
  THEN cleanedColumn[index]
  ELSE CellOf(row, fieldId)

\* data.map((row, index) => ({...row, [fieldId]: ...}))
MergeColumn(rows, fieldId, cleanedColumn) ==
  [index \in 1..Len(rows) |->
     [id |-> rows[index].id,
      cells |-> [k \in DOMAIN rows[index].cells \cup {fieldId} |->
                   IF k = fieldId
                   THEN MergedCell(cleanedColumn, index, rows[index], fieldId)
                   ELSE rows[index].cells[k]]]]

\* the clean buttons never disabled
CleanEnabled_Always == TRUE

\* disabled={isCleaning} on the clean button of every field card
CleanEnabled == ~isCleaning

\* the click on a TEXT field's clean button: handleAIClean up to its await
HandleAIClean(i) ==
  /\ CleanEnabled
  /\ fields[i].type = "TEXT"
  /\ outstanding' = outstanding + 1
  /\ isCleaning' = TRUE
  /\ request' = [fieldId |-> fields[i].id, rows |-> data]
  /\ last' = [Idle EXCEPT !.op = "clean"]
  /\ UNCHANGED <<isSelecting, fields, data, listContext, clock>>

\* a clean request, within the budget of requests of a run
StartCleanAt(i) ==
  /\ cleans < MaxCleans
  /\ cleans' = cleans + 1
  /\ HandleAIClean(i)

StartClean == \E i \in 1..Len(fields) : StartCleanAt(i)

\* a clean request, within the larger budget of the runs that look at
\* requests following one another
StartCleanAgain ==
  \E i \in 1..Len(fields) :
    /\ cleans < MaxFlightCleans
    /\ cleans' = cleans + 1
    /\ HandleAIClean(i)

\* the request settles: handleAIClean from its await to the end of finally
SettleWith(response) ==
  LET answer == cleanDataWithAI(response)
  IN /\ outstanding > 0
     /\ data' = IF answer.resolved
                THEN MergeColumn(request.rows, request.fieldId, answer.value)
                ELSE data
     /\ last' = [Idle EXCEPT !.op = "settle",
                              !.outcome = IF answer.resolved THEN "merged" ELSE "failed",
                              !.alert = ~answer.resolved]
     /\ isCleaning' = FALSE
     /\ request' = NoRequest
     /\ outstanding' = outstanding - 1
     /\ UNCHANGED <<isSelecting, fields, listContext, clock, cleans>>

SettleClean == \E response \in Responses(Len(request.rows)) : SettleWith(response)

(***************************************************************************)
(* Spec: the reconciler in the runs in which the user never asks for a     *)
(* TextTransform.  SpecClean: the runs with requests, every interleaving   *)
(* of an outstanding request with clicks, removals and the clock, with a   *)
(* shorter field list.                                                     *)
(***************************************************************************)
Next ==
  \/ ToggleSelectionMode
  \/ Tick
  \/ Click
  \/ RemoveField

Spec == Init /\ [][Next]_vars

NextClean ==
  \/ ToggleSelectionMode
  \/ Tick
  \/ ClickFew
  \/ RemoveField
  \/ StartClean
  \/ SettleClean

SpecClean == Init /\ [][NextClean]_vars

NextFlight ==
  \/ ToggleSelectionMode
  \/ ClickFew
  \/ RemoveField
  \/ StartCleanAgain
  \/ SettleClean

SpecFlight == Init /\ [][NextFlight]_vars

(***************************************************************************)
(* Properties.                                                             *)
(***************************************************************************)
\* the column of a field in a row set
ColumnOf(rows, fieldId) == [i \in 1..Len(rows) |-> CellOf(rows[i], fieldId)]

\* the row set but for one column
OtherCells(rows, fieldId) ==
  [i \in 1..Len(rows) |->
     [id |-> rows[i].id,
      cells |-> [k \in DOMAIN rows[i].cells \ {fieldId} |-> rows[i].cells[k]]]]

\* C1: when the request settles with an array whose length differs from the
\* number of rows it was made for, the target column is what it was when the
\* call was made and a failure notice is shown.
C1_MismatchKeepsColumn ==
  [][\A response \in Responses(Len(request.rows)) :
       ( /\ SettleWith(response)
         /\ response.kind = "array"
         /\ Len(response.array) # Len(request.rows) )
       => /\ ColumnOf(data', request.fieldId) = ColumnOf(request.rows, request.fieldId)
          /\ last'.alert]_vars

\* C2: when the request settles with an array as long as the row set, row i's
\* value for the target field is exactly the i-th answer, the empty string
\* included, and ids, order, count and the other columns are as they were.
C2_SuccessReplacesColumn ==
  [][\A response \in Responses(Len(request.rows)) :
       ( /\ SettleWith(response)
         /\ response.kind = "array"
         /\ Len(response.array) = Len(request.rows) )
       => /\ ColumnOf(data', request.fieldId) = response.array
          /\ OtherCells(data', request.fieldId) = OtherCells(request.rows, request.fieldId)]_vars

\* C3: when the request fails (the call rejects, or the response is empty or
\* no JSON array), settling changes neither the row set nor the field list
\* nor the ListContext, and the failure notice is shown.
C3_FailureKeepsState ==
  [][\A response \in Responses(Len(request.rows)) :
       (SettleWith(response) /\ response.kind # "array")
       => /\ UNCHANGED <<data, fields, listContext>>
          /\ last'.alert
          /\ last'.outcome = "failed"]_vars

\* a request made over a non-empty row set has failed
C3_Witness ==
  /\ last.op = "settle"
  /\ last.outcome = "failed"
  /\ last.alert
  /\ Len(data) > 0

\* a handled click on target, the user answering answer to the gate it shows
\* (the first tests are what every click leaves, looked at before the handler
\* is run on target)
Clicked(target, answer) ==
  /\ isSelecting
  /\ last'.op = "click"
  /\ clock' = clock
  /\ isSelecting' = isSelecting
  /\ ClickOn(target, answer, MaxFields)

\* the handler runs the List Identifier on target and it names another list
IdentifiesOtherList(target) ==
  /\ identifyRepeatedList(target) # NoContext
  /\ identifyRepeatedList(target).container # listContext.container
  /\ ItemInCurrentList(listContext, target) = NULL

\* C4: over a non-empty field set, a click that identifies a list with another
\* container consults the confirmation gate; rejected, it leaves ListContext,
\* field set and row set as they were; and no step replaces the ListContext
\* of a non-empty field set unless the gate accepted.
C4_SwitchGate ==
  [][/\ \A target \in ClickTargets : \A answer \in BOOLEAN :
          ( /\ Len(fields) > 0
            /\ IdentifiesOtherList(target)
            /\ Clicked(target, answer) )
          => /\ last'.switchGate = IF answer THEN "accept" ELSE "reject"
             /\ ~answer => UNCHANGED <<listContext, fields, data>>
             /\ answer => listContext' = identifyRepeatedList(target)
     /\ (Len(fields) > 0 /\ listContext' # listContext)
          => last'.switchGate = "accept"]_vars

\* a list switch was offered over a non-empty field set and rejected
C4_Witness ==
  /\ last.op = "click"
  /\ last.switchGate = "reject"
  /\ last.outcome = "cancelled"
  /\ Len(fields) > 0

\* C5 as claimed: after a click on which a list switch is confirmed the field
\* list is empty, and the ListContext is the identified one, with a container
\* other than the previous one.
C5_SwitchEmptiesFields ==
  [][\A target \in ClickTargets :
       (last'.switchGate = "accept" /\ Clicked(target, TRUE))
       => /\ fields' = <<>>
          /\ listContext' = identifyRepeatedList(target)
          /\ listContext'.container # listContext.container]_vars

\* C5 amended: after a click on which a list switch is confirmed the field
\* list holds exactly one field, the one resolved from the clicked node under
\* the identified list, and the ListContext is the one the List Identifier
\* derives from the clicked node, with a container other than the previous one.
C5_SwitchResets ==
  [][\A target \in ClickTargets :
       (last'.switchGate = "accept" /\ Clicked(target, TRUE))
       => LET found == identifyRepeatedList(target)
              r == ResolveField(target, found.foundItem)
          IN /\ Len(fields') = 1
             /\ fields'[1] = [id |-> uniqueId(r.name, clock),
                              name |-> capitalize(r.name),
                              selector |-> r.selector, type |-> r.type]
             /\ found # NoContext
             /\ listContext' = found
             /\ listContext'.container # listContext.container]_vars

\* a list switch was confirmed
C5_Witness ==
  /\ last.op = "click"
  /\ last.switchGate = "accept"
  /\ last.outcome = "switched"

\* C6: a click made with no ListContext, or outside the current container,
\* for which the List Identifier finds nothing, leaves ListContext, field set
\* and row set as they were and consults no gate.
C6_DetectionFailureNoOp ==
  [][\A target \in ClickTargets : \A answer \in BOOLEAN :
       ( /\ ~InsideCurrent(listContext, target)
         /\ identifyRepeatedList(target) = NoContext
         /\ Clicked(target, answer) )
       => /\ UNCHANGED <<listContext, fields, data>>
          /\ last'.outcome = "notFound"
          /\ last'.switchGate = "none"
          /\ last'.dupGate = "none"]_vars

\* detection failed on a click outside the container of a list with fields
C6_Witness ==
  /\ last.op = "click"
  /\ last.outcome = "notFound"
  /\ ~last.inside
  /\ listContext # NoContext
  /\ Len(fields) > 0

\* the click lands in the current container and maps to no item of it
ItemUnresolved(target) ==
  /\ listContext # NoContext
  /\ InsideCurrent(listContext, target)
  /\ Closest(target, listContext.itemSelector) = NULL
  /\ WalkUp(target, listContext.container) = NULL

ResolvedItem(target) ==
  IF ItemInCurrentList(listContext, target) # NULL
  THEN ItemInCurrentList(listContext, target)
  ELSE identifyRepeatedList(target).foundItem

\* C8: a click whose relative selector an existing field already uses, answered
\* "update", keeps the length, order, ids and selectors of the field list,
\* gives the first field with that selector the new name and type, leaves
\* every other field untouched, and changes neither the ListContext nor the
\* number of rows.
C8_UpdateTouchesOneField ==
  [][\A target \in ClickTargets :
       (last'.dupGate = "update" /\ Clicked(target, TRUE))
       => LET r == ResolveField(target, ResolvedItem(target))
              k == ExistingField(fields, r.selector)
          IN /\ Len(fields') = Len(fields)
             /\ fields'[k] = [fields[k] EXCEPT !.name = capitalize(r.name),
                                               !.type = r.type]
             /\ \A i \in 1..Len(fields) : i # k => fields'[i] = fields[i]
             /\ listContext' = listContext
             /\ Len(data') = Len(data)]_vars

\* C9: no two fields of the active field set share an id.
C9_UniqueIds ==
  \A i, j \in 1..Len(fields) : i # j => fields[i].id # fields[j].id

\* C10: a click that appends one field under the same ListContext leaves, in
\* every row, the value of every field that existed before the click as it
\* was.
C10_AppendKeepsValues ==
  [][( /\ last'.outcome = "appended"
       /\ Len(fields') = Len(fields) + 1
       /\ listContext' = listContext )
     => \A r \in 1..Len(data) :
          /\ r <= Len(data')
          /\ \A i \in 1..Len(fields) :
               data'[r].cells[fields[i].id] = data[r].cells[fields[i].id]]_vars


\* the ids of the active fields
ActiveIds(fs) == { fs[i].id : i \in 1..Len(fs) }

\* C11: every step that changes the field list (append, duplicate update,
\* duplicate add, confirmed list switch, removal) leaves as row set the
\* extraction of the new field list under the ListContext the step leaves:
\* every row has a value for each active field id and for nothing else.
C11_MutationReextracts ==
  [][fields' # fields
     => /\ data' = updateData(listContext', fields')
        /\ \A r \in 1..Len(data') : DOMAIN data'[r].cells = ActiveIds(fields')]_vars

\* a field was removed from a list of two, and rows remain for the other
C11_Witness ==
  /\ last.op = "remove"
  /\ Len(fields) = 1
  /\ Len(data) > 0


\* the ListContext invariant: the container is the parent of the anchor item,
\* and the item selector, applied to the children of the container, matches
\* the anchor item and at least one other child
WellFormedContext(ctx) ==
  /\ Parent[ctx.foundItem] = ctx.container
  /\ Matches(ctx.foundItem, ctx.itemSelector)
  /\ \E i \in 1..Len(ScopedChildren(ctx.container, ctx.itemSelector)) :
       ScopedChildren(ctx.container, ctx.itemSelector)[i] # ctx.foundItem

\* C12: the ListContext installed in any reachable state, which is always
\* one the List Identifier returned, has as container the parent of its
\* anchor item, and its item selector matches the anchor item and at least
\* one other child of the container.
C12_ContextWellFormed ==
  listContext # NoContext => WellFormedContext(listContext)


\* C13: while selection mode is off, a click on any node leaves ListContext,
\* field set and row set as they were, and runs neither the List Identifier
\* nor a confirmation gate.
C13_SelectionGate ==
  [][\A target \in ClickTargets : \A answer \in BOOLEAN :
       ( /\ ~isSelecting
         /\ last'.op = "click"
         /\ ClickOn(target, answer, MaxFields) )
       => /\ UNCHANGED <<listContext, fields, data>>
          /\ last'.outcome = "ignored"
          /\ ~last'.identified
          /\ last'.switchGate = "none"
          /\ last'.dupGate = "none"]_vars

\* a click made over a list with fields after selection mode was left
C13_Witness ==
  /\ ~isSelecting
  /\ last.op = "click"
  /\ last.outcome = "ignored"
  /\ Len(fields) > 0


\* C14: the clean action is disabled exactly while a request is outstanding,
\* so at most one request is outstanding at any time, and a step in which a
\* request settles, by success or by failure, leaves the action enabled.
C14_SingleInFlight ==
  /\ [](/\ outstanding <= 1
        /\ CleanEnabled <=> outstanding = 0
        /\ outstanding = 1 <=> request # NoRequest)
  /\ [][outstanding' < outstanding => CleanEnabled']_vars

\* a second request is outstanding: the first one settled and the action was
\* enabled again
C14_Witness ==
  /\ cleans = 2
  /\ outstanding = 1
  /\ ~CleanEnabled
  /\ last.op = "clean"


\* the items extract reads under a ListContext, in document order
ItemsOf(ctx) ==
  IF Len(ScopedChildren(ctx.container, ctx.itemSelector)) = 0
  THEN QuerySelectorAll(ctx.container, ctx.itemSelector)
  ELSE ScopedChildren(ctx.container, ctx.itemSelector)

\* field i's selector finds nothing in item
Unmatched(item, i) ==
  /\ fields[i].selector # ROOT
  /\ QuerySelector(item, fields[i].selector) = NULL

\* C15: the extracted row set has a row for every item, whichever fields
\* matched in it, and in the row of an item in which a field's selector
\* matches no descendant that field's cell is present and is the empty
\* string.
C15_MissingMatchIsEmpty ==
  (listContext # NoContext /\ Len(fields) > 0)
  => /\ Len(data) = Len(ItemsOf(listContext))
     /\ \A r \in 1..Len(data) : \A i \in 1..Len(fields) :
          Unmatched(ItemsOf(listContext)[r], i)
          => /\ fields[i].id \in DOMAIN data[r].cells
             /\ data[r].cells[fields[i].id] = <<>>

\* the card list extracted for a field that the third, empty card lacks
C15_Witness ==
  /\ listContext.container = 6
  /\ Len(fields) > 0
  /\ Len(data) = 3
  /\ Unmatched(13, 1)
  /\ ~Unmatched(7, 1)
  /\ data[3].cells[fields[1].id] = <<>>
  /\ data[1].cells[fields[1].id] # <<>>


\* field i is the only field with its id
SoleOwner(i) == \A j \in 1..Len(fields) : j # i => fields[j].id # fields[i].id

\* C16: the extracted row set has one row per item matched under the
\* container, in document order; the k-th row, counting from 0, has the id
\* row-k and holds the values of the k-th item, whatever the cells hold, so
\* that items of identical content give rows of distinct ids.
C16_PositionalIds ==
  (listContext # NoContext /\ Len(fields) > 0)
  => LET items == ItemsOf(listContext)
     IN /\ Len(data) = Len(items)
        /\ \A j, k \in 1..Len(items) : j < k => items[j] < items[k]
        /\ \A k \in 1..Len(data) :
             /\ data[k].id = <<"row-", k - 1>>
             /\ \A i \in 1..Len(fields) :
                  SoleOwner(i)
                  => data[k].cells[fields[i].id]
                       = CellValue(items[k],
                                   [id |-> fields[i].id,
                                    relativeSelector |-> fields[i].selector,
                                    type |-> fields[i].type])
        /\ \A j, k \in 1..Len(data) : j # k => data[j].id # data[k].id

\* two cards with the same title: two rows with the same cells and two ids
C16_Witness ==
  /\ listContext.container = 6
  /\ Len(fields) > 0
  /\ Len(data) = 3
  /\ data[1].cells = data[2].cells
  /\ data[1].cells[fields[1].id] # <<>>
  /\ data[1].id = <<"row-", 0>>
  /\ data[2].id = <<"row-", 1>>


\* C17: a click that identifies a new list, the gate accepting or, over an
\* empty field set, not consulted, installs the identified ListContext and
\* leaves exactly one field: the one resolved from the clicked node against
\* the new list (the whole item if and only if the clicked node is the anchor
\* item), made without a duplicate prompt; and the row set is the extraction
\* of that field under the new ListContext.
C17_SwitchIsFirstSelection ==
  [][\A target \in ClickTargets : \A answer \in BOOLEAN :
       ( /\ Len(fields) = 0 \/ answer
         /\ IdentifiesOtherList(target)
         /\ Clicked(target, answer) )
       => LET found == identifyRepeatedList(target)
              r == ResolveField(target, found.foundItem)
          IN /\ listContext' = found
             /\ last'.switchGate = IF Len(fields) = 0 THEN "none" ELSE "accept"
             /\ last'.dupGate = "none"
             /\ fields' = << [id |-> <<sanitize(r.name), clock>>,
                              name |-> capitalize(r.name),
                              selector |-> r.selector,
                              type |-> r.type] >>
             /\ fields'[1].selector = ROOT <=> target = found.foundItem
             /\ data' = updateData(found, fields')
             /\ Len(data') = Len(ItemsOf(found))]_vars

\* a confirmed switch by a click on an item itself left the whole-item field
\* alone, with the rows of the new list
C17_Witness ==
  /\ last.op = "click"
  /\ last.outcome = "switched"
  /\ last.switchGate = "accept"
  /\ last.dupGate = "none"
  /\ Len(fields) = 1
  /\ fields[1].selector = ROOT
  /\ Len(data) = Len(ItemsOf(listContext))


\* the k-th ancestor of n (n itself for 0), NULL above the root
RECURSIVE NthAncestor(_, _)
NthAncestor(n, k) ==
  IF n = NULL \/ k = 0 THEN n ELSE NthAncestor(Parent[n], k - 1)

\* the walk from start reaches level k: levels 0..k are elements below the
\* document root, and level k has a parent
ReachesLevel(start, k) ==
  /\ \A j \in 0..k :
       /\ NthAncestor(start, j) # NULL
       /\ TagName[NthAncestor(start, j)]
            \notin {<<"B","O","D","Y">>, <<"H","T","M","L">>}
  /\ Parent[NthAncestor(start, k)] # NULL

\* the levels of the walk, at most MaxDepth of them, at which the node has a
\* sibling with its tag name
RepeatingLevels(start) ==
  { k \in 0..(MaxDepth - 1) :
      /\ ReachesLevel(start, k)
      /\ Len(SameTagSiblings(NthAncestor(start, k))) > 0 }

\* the nearest node of the walk with a same-tag sibling, NULL for none
NearestRepeating(start) ==
  IF RepeatingLevels(start) = {} THEN NULL
  ELSE NthAncestor(start,
                   CHOOSE k \in RepeatingLevels(start) :
                     \A j \in RepeatingLevels(start) : k <= j)

\* C18: when a click runs the List Identifier on a node, it answers with the
\* ListContext of the nearest node of the ancestor chain (the node itself
\* first, 8 levels at most, below the document root) that has a sibling with
\* its tag name, and with NotFound exactly when there is no such node.
C18_NearestRepeating ==
  [][\A target \in ClickTargets : \A answer \in BOOLEAN :
       (last'.identified /\ Clicked(target, answer))
       => LET n == NearestRepeating(target)
              found == identifyRepeatedList(target)
          IN IF n = NULL
             THEN found = NoContext /\ last'.outcome = "notFound"
             ELSE /\ found.foundItem = n
                  /\ found.container = Parent[n]
                  /\ last'.outcome # "notFound"]_vars


\* the direct child of the container that is target or an ancestor of it
ItemAround(container, target) ==
  CHOOSE c \in Nodes : Parent[c] = container /\ Contains(c, target)

\* C19: a click on a node inside the current container that adds or updates a
\* field of the current list resolves the item to the direct child of the
\* container around the clicked node, and the field it adds or updates has
\* the whole-item selector exactly when the clicked node is that item.
C19_ItemIsDirectChild ==
  [][\A target \in ClickTargets : \A answer \in BOOLEAN :
       ( /\ InsideCurrent(listContext, target)
         /\ target # listContext.container
         /\ Clicked(target, answer)
         /\ ~last'.identified
         /\ last'.outcome \in {"appended", "updated"} )
       => LET item == ItemAround(listContext.container, target)
              resolved == ItemInCurrentList(listContext, target)
              selector == ResolveField(target, resolved).selector
          IN /\ resolved = item
             /\ selector = ROOT <=> target = item
             /\ last'.outcome = "appended"
                  => fields'[Len(fields')].selector = selector
             /\ last'.outcome = "updated"
                  => \E i \in DOMAIN fields' : fields'[i].selector = selector]_vars


\* C20: in every reachable state, with a TextTransform request outstanding
\* or just completed, every row has values for exactly the ids of the active
\* fields, and there is one row for each item of the current ListContext
\* (none without a ListContext).
C20_RowsFollowReconciler ==
  /\ \A r \in DOMAIN data : DOMAIN data[r].cells = ActiveIds(fields)
  /\ Len(data) = IF listContext = NoContext THEN 0
                 ELSE Len(ItemsOf(listContext))


\* target is a strict descendant of the current container
StrictlyInside(ctx, target) ==
  InsideCurrent(ctx, target) /\ target # ctx.container

\* fs with one field appended
Appends(fs, after) ==
  Len(after) = Len(fs) + 1 /\ SubSeq(after, 1, Len(fs)) = fs

\* fs with the same fields in place, ids and selectors kept
Updates(fs, after) ==
  /\ Len(after) = Len(fs)
  /\ \A i \in 1..Len(fs) :
       after[i].id = fs[i].id /\ after[i].selector = fs[i].selector

\* C21: with a ListContext, a click on a strict descendant of its container
\* leaves the ListContext as it is, does not run the List Identifier, does not
\* consult the list-switch gate, and leaves the field list as it was, with one
\* field appended, or with the same fields updated in place.
C21_InsideKeepsContext ==
  [][\A target \in ClickTargets : \A answer \in BOOLEAN :
       ( /\ last'.inside
         /\ StrictlyInside(listContext, target)
         /\ Clicked(target, answer) )
       => /\ listContext' = listContext
          /\ ~last'.identified
          /\ last'.switchGate = "none"
          /\ last'.outcome \in {"appended", "updated"}
          /\ \/ fields' = fields
             \/ Appends(fields, fields')
             \/ Updates(fields, fields')]_vars

\* a click on a sub-element of an item of the current list appended a second
\* field to that list, without the identifier and without the gate
C21_Witness ==
  /\ last.op = "click"
  /\ last.inside
  /\ ~last.identified
  /\ last.switchGate = "none"
  /\ last.outcome = "appended"
  /\ Len(fields) = 2
  /\ listContext.container = 6
  /\ fields[2].selector # ROOT

=============================================================================
